---------------------------- MODULE Spec2Model ----------------------------
(***************************************************************************)
(* Model of plugin.video.btsportvideo/resources/lib: the live             *)
(* authentication chain of live.py (login, sport_login, hls_url) and the  *)
(* catalogue and search functions of video.py (categories, query_text,    *)
(* _videos, video_results, search_results).                               *)
(*                                                                         *)
(* Python values are modelled as follows.  None is the string None; a     *)
(* value is falsy when it is None or the empty string.  A dict is a       *)
(* function whose DOMAIN is its set of keys.  A text that the code takes  *)
(* apart or puts together (tags, queries) is a sequence of atoms: one     *)
(* atom per data character and one atom per literal piece of a format     *)
(* template.  The remote servers are the environment: every response is   *)
(* chosen with \E inside the action of the call that receives it.         *)
(***************************************************************************)
EXTENDS Integers, Sequences, FiniteSets, TLC

VARIABLES
    pc,        \* position of the caller in one live-playback attempt
    session,   \* SMSESSION value held by the caller (None before login)
    avs,       \* avs_cookie value held by the caller
    stream,    \* stream URL held by the caller
    attempts,  \* number of live-playback attempts started
    nreq,      \* number of HTTP requests sent so far
    last,      \* the last call: its name, arguments and outcome
    gen,       \* the generator object returned by categories()
    yielded,   \* the values that generator has yielded so far
    vgen,      \* the generator object returned by _videos()
    vyielded,  \* the Video values that generator has yielded so far
    lastreq    \* the parameters of the last search request sent

vars == <<pc, session, avs, stream, attempts, nreq, last,
          gen, yielded, vgen, vyielded, lastreq>>

liveVars == <<pc, session, avs, stream, attempts>>
catVars == <<gen, yielded>>
searchVars == <<vgen, vyielded, lastreq>>

-----------------------------------------------------------------------------
(* Bounds *)

MaxAttempts == 2

MaxRequests == 2

MaxPages == 2

MaxTagLen == 3

MaxDocs == 1

MaxPage == 3

MaxPageSize == 2

MaxFound == 5

-----------------------------------------------------------------------------
(* Python values *)

None == "None"

Falsy(x) == x \in {None, ""}

Truthy(x) == ~Falsy(x)

\* dict.get(key): the value, or None when the key is absent
Get(d, key) == IF key \in DOMAIN d THEN d[key] ELSE None

Return(v, n) == [kind |-> "return", value |-> v, nsent |-> n]

Raise(exc, args, n) == [kind |-> "raise", exc |-> exc, args |-> args, nsent |-> n]

NoCall == [op |-> "none"]

\* a key of a dict: not there, or there with one of the values
Optional(values) == {[has |-> FALSE]} \cup {[has |-> TRUE, v |-> x] : x \in values}

\* the dict of the keys that are there
OptionalDict(opt) == [k \in {o \in DOMAIN opt : opt[o].has} |-> opt[k].v]

\* values of video.py, where a result is None or a text (sequence of atoms)
PyNone == [k |-> "None"]

Str(t) == [k |-> "str", s |-> t]

RECURSIVE Split(_, _)
\* str.split(sep): the pieces between the separators, empty pieces kept
Split(t, sep) ==
    IF t = << >> THEN << << >> >>
    ELSE LET rest == Split(Tail(t), sep) IN
         IF Head(t) = sep
         THEN << << >> >> \o rest
         ELSE << <<Head(t)>> \o rest[1] >> \o Tail(rest)

RECURSIVE Join(_, _)
\* sep.join(parts)
Join(parts, sep) ==
    IF Len(parts) = 0 THEN << >>
    ELSE IF Len(parts) = 1 THEN parts[1]
    ELSE parts[1] \o <<sep>> \o Join(Tail(parts), sep)

\* a format template is a sequence of literal pieces and {name} fields
Lit(a) == [lit |-> a]

Field(name) == [field |-> name]

IsField(piece) == "field" \in DOMAIN piece

RECURSIVE Expand(_, _)
Expand(fmt, d) ==
    IF fmt = << >> THEN << >>
    ELSE (IF IsField(fmt[1]) THEN d[fmt[1].field] ELSE <<fmt[1].lit>>)
         \o Expand(Tail(fmt), d)

\* str.format(**d): KeyError for the first field that d does not have
Format(fmt, d, n) ==
    LET missing == {i \in 1..Len(fmt) :
                       IsField(fmt[i]) /\ fmt[i].field \notin DOMAIN d}
    IN IF missing # {}
       THEN Raise("KeyError",
                  <<fmt[CHOOSE i \in missing : \A j \in missing : i <= j].field>>, n)
       ELSE Return(Str(Expand(fmt, d)), n)

-----------------------------------------------------------------------------
(* live.py: the responses of the sign-in, federation and AVS servers *)

Users == {"alice", "bob"}

Passwords == {"pw"}

SessionValues == {"S1", "S2"}

AvsValues == {"", "A1"}

ChannelIds == {2020, 2021}

StreamUrls == {"U1", "U2"}

\* the cookie jar of the sign-in response: SMSESSION is there or not
LoginResponses ==
    {[cookies |-> << >>]} \cup
    {[cookies |-> [SMSESSION |-> s]] : s \in SessionValues}

\* the federation page: soup.find() gives None, or an input with a value
FedResponses == {[input |-> None], [input |-> "SAML"]}

AvsLoginResponses ==
    {[cookies |-> << >>]} \cup
    {[cookies |-> [avs_cookie |-> a]] : a \in AvsValues}

\* the GetCDN JSON.  A failure response carries errorDescription and
\* message; a success response carries resultObj.src and may omit them.
CdnResponses ==
    {[resultObj |-> ro, errorDescription |-> e, message |-> m] :
        ro \in {[k |-> "null"], [k |-> "str", s |-> ""]},
        e \in {"E1", "E2"}, m \in {"M1", "M2"}}
    \cup {[resultObj |-> [k |-> "obj", src |-> u]] : u \in StreamUrls}
    \cup {[resultObj |-> [k |-> "obj", src |-> u],
           errorDescription |-> "", message |-> "OK"] : u \in StreamUrls}

\* truth value of the JSON value result['resultObj']
JsonTruthy(v) == v.k = "obj" \/ (v.k = "str" /\ v.s # "")

-----------------------------------------------------------------------------
(* live.py: the three functions, each given the responses it receives *)

\* login that posts the form a second time when no SMSESSION came back
login_retry(user, password, resp) ==
    Return(Get(resp.cookies, "SMSESSION"),
           IF "SMSESSION" \in DOMAIN resp.cookies THEN 1 ELSE 2)

login(user, password, resp) ==
    Return(Get(resp.cookies, "SMSESSION"), 1)

sport_login(sess, fed, resp) ==
    IF fed.input = None
    THEN Raise("TypeError", << >>, 1)
    ELSE IF "avs_cookie" \in DOMAIN resp.cookies
         THEN Return(resp.cookies["avs_cookie"], 2)
         ELSE Raise("KeyError", <<"avs_cookie">>, 2)

\* hls_url without the early return: the request goes out with any cookie
hls_url_noguard(avs_cookie, channel_id, resp) ==
    IF ~JsonTruthy(resp.resultObj)
    THEN Raise("BTError", <<resp.errorDescription, resp.message>>, 1)
    ELSE Return(resp.resultObj.src, 1)

\* hls_url that answers None instead of raising when resultObj is falsy
hls_url_noraise(avs_cookie, channel_id, resp) ==
    IF Falsy(avs_cookie)
    THEN Return(None, 0)
    ELSE IF ~JsonTruthy(resp.resultObj)
         THEN Return(None, 1)
         ELSE Return(resp.resultObj.src, 1)

hls_url(avs_cookie, channel_id, resp) ==
    IF Falsy(avs_cookie)
    THEN Return(None, 0)
    ELSE IF ~JsonTruthy(resp.resultObj)
         THEN Raise("BTError", <<resp.errorDescription, resp.message>>, 1)
         ELSE Return(resp.resultObj.src, 1)

-----------------------------------------------------------------------------
(* One live-playback attempt driven as login -> sport_login -> hls_url.   *)
(* A raised error ends the attempt; so does a null returned by login.     *)

Login ==
    /\ pc = "start"
    /\ \E user \in Users, password \in Passwords, resp \in LoginResponses :
         LET out == login(user, password, resp) IN
         /\ last' = [op |-> "login", args |-> <<user, password>>, out |-> out]
         /\ nreq' = nreq + out.nsent
         /\ session' = out.value
         /\ pc' = IF out.value = None THEN "stopped" ELSE "logged_in"
    /\ UNCHANGED <<avs, stream, attempts, catVars, searchVars>>

SportLogin ==
    /\ pc = "logged_in"
    /\ \E fed \in FedResponses, resp \in AvsLoginResponses :
         LET out == sport_login(session, fed, resp) IN
         /\ last' = [op |-> "sport_login", args |-> <<session>>, out |-> out]
         /\ nreq' = nreq + out.nsent
         /\ avs' = IF out.kind = "return" THEN out.value ELSE avs
         /\ pc' = IF out.kind = "return" THEN "avs_done" ELSE "stopped"
    /\ UNCHANGED <<session, stream, attempts, catVars, searchVars>>

HlsUrl ==
    /\ pc = "avs_done"
    /\ \E channel_id \in ChannelIds, resp \in CdnResponses :
         LET out == hls_url(avs, channel_id, resp) IN
         /\ last' = [op |-> "hls_url", args |-> <<avs, channel_id>>,
                     out |-> out, resp |-> resp]
         /\ nreq' = nreq + out.nsent
         /\ stream' = IF out.kind = "return" THEN out.value ELSE stream
         /\ pc' = "stopped"
    /\ UNCHANGED <<session, avs, attempts, catVars, searchVars>>

\* hls_url called on its own with a cookie the caller got elsewhere (or
\* None); the caller keeps nothing of the result
HlsUrlDirect ==
    /\ pc = "start"
    /\ \E cookie \in {None} \cup AvsValues, channel_id \in ChannelIds,
          resp \in CdnResponses :
         LET out == hls_url(cookie, channel_id, resp) IN
         /\ last' = [op |-> "hls_url", args |-> <<cookie, channel_id>>,
                     out |-> out, resp |-> resp]
         /\ nreq' = nreq + out.nsent
         /\ pc' = "stopped"
    /\ UNCHANGED <<session, avs, stream, attempts, catVars, searchVars>>

\* the caller gives up the credentials it holds and starts a new attempt
Restart ==
    /\ pc = "stopped"
    /\ attempts < MaxAttempts
    /\ attempts' = attempts + 1
    /\ pc' = "start"
    /\ session' = None
    /\ avs' = None
    /\ stream' = None
    /\ last' = NoCall
    /\ UNCHANGED <<nreq, catVars, searchVars>>


-----------------------------------------------------------------------------
(* video.py: the pages of the site *)

Titles == {"Football", "Rugby"}

PageUrls == {"/football", "/rugby"}

CategoryEntries == [title : Titles, pageurl : PageUrls]

SeqsUpTo(S, n) == UNION {[1..k -> S] : k \in 0..n}

\* the categories page: the marker is there or not; when it is, the
\* literal after it is a valid pagedetails value
CategoryPages ==
    {[marker |-> FALSE]} \cup
    {[marker |-> TRUE,
      literal |-> [defaultpage |-> [pageurl |-> d], pages |-> ps]] :
        d \in {"/all-videos"}, ps \in SeqsUpTo(CategoryEntries, MaxPages)}

TagChars == {"a", "b", ","}

TagTexts == SeqsUpTo(TagChars, MaxTagLen)

CompetitionTexts == {<<"E", "P", "L">>}

CcategoryTexts == {<<"f", "o", "o", "t">>, <<"r", "u", "g">>}

\* the properties literal: tags, competition, ccategory each there or not
PropertyDicts ==
    {OptionalDict(opt) :
        opt \in [tags : Optional(TagTexts),
                 competition : Optional(CompetitionTexts),
                 ccategory : Optional(CcategoryTexts)]}

PropertyPages ==
    {[marker |-> FALSE]} \cup
    {[marker |-> TRUE, literal |-> d] : d \in PropertyDicts}

-----------------------------------------------------------------------------
(* video.py: categories() and query_text() *)

Category(title, path) == [title |-> title, path |-> path]

\* categories() that fetches the page once more when the marker is missing
categories_start_retry(page) ==
    IF ~page.marker
    THEN [kind |-> "raise", exc |-> "AttributeError", nsent |-> 2]
    ELSE [kind |-> "yield",
          value |-> Category(None, page.literal["defaultpage"]["pageurl"]),
          nsent |-> 1]

\* the body of categories() up to its first yield, given the page fetched
categories_start(page) ==
    IF ~page.marker
    THEN [kind |-> "raise", exc |-> "AttributeError", nsent |-> 1]
    ELSE [kind |-> "yield",
          value |-> Category(None, page.literal["defaultpage"]["pageurl"]),
          nsent |-> 1]

\* a loop that stops one entry early
categories_resume_short(pagedetails, i) ==
    IF i < Len(pagedetails["pages"]) - 1
    THEN [kind |-> "yield",
          value |-> Category(pagedetails["pages"][i + 1]["title"],
                             pagedetails["pages"][i + 1]["pageurl"]),
          nsent |-> 0]
    ELSE [kind |-> "stop", nsent |-> 0]

\* the loop of categories(): the yield that follows i yielded entries
categories_resume(pagedetails, i) ==
    IF i < Len(pagedetails["pages"])
    THEN [kind |-> "yield",
          value |-> Category(pagedetails["pages"][i + 1]["title"],
                             pagedetails["pages"][i + 1]["pageurl"]),
          nsent |-> 0]
    ELSE [kind |-> "stop", nsent |-> 0]

query_text(path, page) ==
    IF ~page.marker
    THEN Raise("AttributeError", << >>, 1)
    ELSE LET properties == page.literal IN
    IF "tags" \notin DOMAIN properties
    THEN Raise("KeyError", <<"tags">>, 1)
    ELSE IF properties["tags"] = << >>
    THEN Return(PyNone, 1)
    ELSE LET parts == Split(properties["tags"], ",")
             quoted == [i \in 1..Len(parts) |-> <<"\"">> \o parts[i] \o <<"\"">>]
             props == [properties EXCEPT !["tags"] = Join(quoted, ",")]
             query_fmt ==
                 <<Lit("tags:("), Field("tags"), Lit(")")>> \o
                 (IF "competition" \in DOMAIN props
                  THEN <<Lit(" OR (ccategory:(\""), Field("ccategory"),
                         Lit("\") AND competition:(\""), Field("competition"),
                         Lit("\"))")>>
                  ELSE IF "ccategory" \in DOMAIN props
                  THEN <<Lit(" OR ccategory:(\""), Field("ccategory"),
                         Lit("\")")>>
                  ELSE << >>)
         IN Format(query_fmt, props, 1)

-----------------------------------------------------------------------------
(* Calls of the catalogue functions *)

\* categories() only makes the generator; nothing runs before next()
CategoriesCall ==
    /\ gen.state \in {"none", "done", "failed"}
    /\ nreq < MaxRequests
    /\ gen' = [state |-> "created", nsent |-> 0]
    /\ yielded' = << >>
    /\ last' = [op |-> "categories"]
    /\ UNCHANGED <<liveVars, nreq, searchVars>>

\* next() on the generator: one run of its body up to the next yield
CategoriesNext ==
    \/ /\ gen.state = "created"
       /\ \E page \in CategoryPages :
            LET out == categories_start(page) IN
            /\ nreq' = nreq + out.nsent
            /\ last' = [op |-> "next", out |-> out, page |-> page]
            /\ IF out.kind = "yield"
               THEN /\ yielded' = Append(yielded, out.value)
                    /\ gen' = [state |-> "suspended", nsent |-> out.nsent,
                               pagedetails |-> page.literal, i |-> 0]
               ELSE /\ yielded' = yielded
                    /\ gen' = [state |-> "failed", nsent |-> out.nsent,
                               exc |-> out.exc]
    \/ /\ gen.state = "suspended"
       /\ LET out == categories_resume(gen.pagedetails, gen.i) IN
            /\ nreq' = nreq + out.nsent
            /\ last' = [op |-> "next", out |-> out]
            /\ IF out.kind = "yield"
               THEN /\ yielded' = Append(yielded, out.value)
                    /\ gen' = [gen EXCEPT !.i = gen.i + 1,
                                          !.nsent = gen.nsent + out.nsent]
               ELSE /\ yielded' = yielded
                    /\ gen' = [gen EXCEPT !.state = "done"]
    /\ UNCHANGED <<liveVars, searchVars>>

QueryText ==
    /\ nreq < MaxRequests
    /\ \E path \in PageUrls, page \in PropertyPages :
         LET out == query_text(path, page) IN
         /\ last' = [op |-> "query_text", args |-> <<path>>, out |-> out,
                     page |-> page]
         /\ nreq' = nreq + out.nsent
    /\ UNCHANGED <<liveVars, catVars, searchVars>>


-----------------------------------------------------------------------------
(* video.py: the documents of a search response *)

DateTexts ==
    {<<"2", "0", "2", "0", "-", "0", "3", "-", "0", "1", "T", "1", "2", ":",
       "0", "0", ":", "0", "0", ".", "5", "0", "0", "Z">>}

DurationTexts == {<<"9", "5">>}

\* the values an optional key of a document may have
KeyValues(key) ==
    CASE key = "hlsurl" -> {"", "H"}
      [] key = "streamingurl" -> {"", "S"}
      [] key = "imageurl" -> {"", "I"}
      [] key = "thumbnailURL" -> {"", "B"}
      [] key = "publicationdate" -> DateTexts
      [] key = "duration" -> DurationTexts

OptionalKeys ==
    {"hlsurl", "streamingurl", "imageurl", "thumbnailURL", "publicationdate",
     "duration"}

\* the dict with h1title, teaser and the optional keys that are there
DocOf(title, teaser, opt) ==
    [k \in {"h1title", "teaser"} \cup {o \in OptionalKeys : opt[o].has} |->
        IF k = "h1title" THEN title
        ELSE IF k = "teaser" THEN teaser
        ELSE opt[k].v]

\* a raw result document: h1title and teaser, and any of the optional keys
Docs ==
    {DocOf("Goal", "Teaser", opt) :
        opt \in [hlsurl : Optional(KeyValues("hlsurl")),
                 streamingurl : Optional(KeyValues("streamingurl")),
                 imageurl : Optional(KeyValues("imageurl")),
                 thumbnailURL : Optional(KeyValues("thumbnailURL")),
                 publicationdate : Optional(KeyValues("publicationdate")),
                 duration : Optional(KeyValues("duration"))]}

-----------------------------------------------------------------------------
(* video.py: _date_from_str, _videos, video_results, search_results *)

Digit(c) ==
    CASE c = "0" -> 0 [] c = "1" -> 1 [] c = "2" -> 2 [] c = "3" -> 3
      [] c = "4" -> 4 [] c = "5" -> 5 [] c = "6" -> 6 [] c = "7" -> 7
      [] c = "8" -> 8 [] c = "9" -> 9

RECURSIVE ToInt(_)
\* int(text) for a text of decimal digits
ToInt(t) ==
    IF t = << >> THEN 0
    ELSE 10 * ToInt(SubSeq(t, 1, Len(t) - 1)) + Digit(t[Len(t)])

\* the first 19 characters, read as %Y-%m-%dT%H:%M:%S; the date part is kept
_date_from_str(date_str) ==
    LET t == SubSeq(date_str, 1, IF Len(date_str) < 19 THEN Len(date_str) ELSE 19)
    IN [k |-> "date", year |-> ToInt(SubSeq(t, 1, 4)),
        month |-> ToInt(SubSeq(t, 6, 7)), day |-> ToInt(SubSeq(t, 9, 10))]

\* b or a: the operands the wrong way round
Or_swapped(a, b) == IF Truthy(b) THEN b ELSE a

\* a or b
Or(a, b) == IF Truthy(a) THEN a ELSE b

\* the Video that _videos yields for one document
VideoOf(video) ==
    [title |-> video["h1title"],
     description |-> video["teaser"],
     url |-> Or(Get(video, "hlsurl"), Get(video, "streamingurl")),
     thumbnail |-> Or(Get(video, "imageurl"), Get(video, "thumbnailURL")),
     date |-> IF "publicationdate" \notin DOMAIN video THEN PyNone
              ELSE IF video["publicationdate"] = << >> THEN Str(<< >>)
              ELSE _date_from_str(video["publicationdate"]),
     duration |-> IF "duration" \notin DOMAIN video THEN PyNone
                  ELSE IF video["duration"] = << >> THEN Str(<< >>)
                  ELSE [k |-> "int", n |-> ToInt(video["duration"])]]

\* n / d of two ints, which rounds down
CeilOfQuotient_floor(n, d) == n \div d

\* int(math.ceil(float(n) / d)): for integers of this size the float
\* quotient is never rounded onto or across an integer
CeilOfQuotient(n, d) ==
    IF (n \div d) * d = n THEN n \div d ELSE (n \div d) + 1

Queries == {<<"tags:(", "\"", "a", "\"", ")">>, <<"x">>}

Terms == {<<"g", "o", "a", "l">>, << >>}

Pages == 1..MaxPage

PageSizes == (0..MaxPageSize) \cup {10}

NumFounds == (0..MaxFound) \cup {95}

SearchResponses ==
    [numFound : NumFounds,
     docs : {<< >>, <<[h1title |-> "Goal", teaser |-> "Teaser", hlsurl |-> "H"]>>}]

\* params whose fq list is shared between calls and keeps growing
video_results_params_shared(query, page, page_size) ==
    [q |-> "AssetType:(BTVideo)",
     fq |-> Append(IF lastreq.sent THEN lastreq.params.fq
                   ELSE <<"Publist:btsport">>, query),
     sort |-> "publicationdate desc",
     wt |-> "json",
     start |-> (page - 1) * page_size,
     rows |-> page_size]

\* the params dict that video_results builds and sends
video_results_params(query, page, page_size) ==
    [q |-> "AssetType:(BTVideo)",
     fq |-> Append(<<"Publist:btsport">>, query),
     sort |-> "publicationdate desc",
     wt |-> "json",
     start |-> (page - 1) * page_size,
     rows |-> page_size]

video_results(query, page, page_size, videos_response) ==
    LET params == video_results_params(query, page, page_size) IN
    IF page_size = 0
    THEN [kind |-> "raise", exc |-> "ZeroDivisionError", params |-> params,
          nsent |-> 1]
    ELSE [kind |-> "return", docs |-> videos_response.docs,
          num_pages |-> CeilOfQuotient(videos_response.numFound, page_size),
          params |-> params, nsent |-> 1]

search_results(term, page, page_size, videos_response) ==
    video_results(<<"text:(\"">> \o term \o <<"\")">>, page, page_size,
                  videos_response)

-----------------------------------------------------------------------------
(* Calls of the search functions *)

\* what a call of video_results or search_results leaves behind
SearchCall(op, arg, page, page_size, resp, out) ==
    /\ last' = [op |-> op, args |-> [query |-> arg, page |-> page,
                                      page_size |-> page_size],
                resp |-> resp, out |-> out]
    /\ nreq' = nreq + out.nsent
    /\ lastreq' = [sent |-> TRUE, params |-> out.params]
    /\ vyielded' = << >>
    /\ vgen' = IF out.kind = "return"
               THEN [state |-> "created", docs |-> out.docs, i |-> 0]
               ELSE [state |-> "none"]

VideoResults ==
    /\ nreq < MaxRequests
    /\ \E query \in Queries, page \in Pages, page_size \in PageSizes,
          resp \in SearchResponses :
         SearchCall("video_results", query, page, page_size, resp,
                    video_results(query, page, page_size, resp))
    /\ UNCHANGED <<liveVars, catVars>>

SearchResults ==
    /\ nreq < MaxRequests
    /\ \E term \in Terms, page \in Pages, page_size \in PageSizes,
          resp \in SearchResponses :
         SearchCall("search_results", term, page, page_size, resp,
                    search_results(term, page, page_size, resp))
    /\ UNCHANGED <<liveVars, catVars>>

\* _videos(videos_response) called on a response of its own
VideosCall ==
    /\ vgen.state = "none"
    /\ \E docs \in SeqsUpTo(Docs, MaxDocs) :
         vgen' = [state |-> "created", docs |-> docs, i |-> 0]
    /\ vyielded' = << >>
    /\ last' = [op |-> "_videos"]
    /\ UNCHANGED <<liveVars, catVars, nreq, lastreq>>

\* next() on the generator of _videos
VideosNext ==
    /\ vgen.state \in {"created", "suspended"}
    /\ IF vgen.i < Len(vgen.docs)
       THEN /\ vyielded' = Append(vyielded, VideoOf(vgen.docs[vgen.i + 1]))
            /\ vgen' = [vgen EXCEPT !.state = "suspended", !.i = vgen.i + 1]
       ELSE /\ vyielded' = vyielded
            /\ vgen' = [vgen EXCEPT !.state = "done"]
    /\ UNCHANGED <<liveVars, catVars, nreq, lastreq, last>>

-----------------------------------------------------------------------------

Init ==
    /\ pc = "start"
    /\ session = None
    /\ avs = None
    /\ stream = None
    /\ attempts = 1
    /\ nreq = 0
    /\ last = NoCall
    /\ gen = [state |-> "none"]
    /\ yielded = << >>
    /\ vgen = [state |-> "none"]
    /\ vyielded = << >>
    /\ lastreq = [sent |-> FALSE]

NextLive == Login \/ SportLogin \/ HlsUrl \/ HlsUrlDirect \/ Restart

SpecLive == Init /\ [][NextLive]_vars

NextCategories == CategoriesCall \/ CategoriesNext

SpecCategories == Init /\ [][NextCategories]_vars

NextQuery == QueryText

NextSearch == VideoResults \/ SearchResults \/ VideosNext

SpecSearch == Init /\ [][NextSearch]_vars

NextVideos == VideosCall \/ VideosNext

SpecVideos == Init /\ [][NextVideos]_vars

SpecQuery == Init /\ [][NextQuery]_vars

-----------------------------------------------------------------------------
(* Properties of the live chain *)

\* the state of the chain, read off the credentials the caller holds
ChainState ==
    IF stream # None THEN "StreamResolved"
    ELSE IF avs # None THEN "AvsAuthenticated"
    ELSE IF session # None THEN "SessionEstablished"
    ELSE "Unauthenticated"

\* a step of the attempt in which the function op was called
Called(op) == pc' # pc /\ last'.op = op

Failed(out) == out.kind = "raise" \/ out.value = None

\* C1: in an attempt driven as login -> sport_login -> hls_url the chain
\* moves only one state forward at a time, each move made by the matching
\* function returning a value (a session, then an AVS cookie, then
\* resultObj.src); a step that raises or returns None leaves the chain where
\* it was; login sends exactly 1 request, sport_login at most 2, hls_url at
\* most 1.  Only the caller's restart goes back to Unauthenticated.
C1_ChainMovesForwardOnly ==
    [][ /\ ChainState' # ChainState =>
             \/ /\ ChainState = "Unauthenticated"
                /\ ChainState' = "SessionEstablished"
                /\ Called("login") /\ ~Failed(last'.out)
                /\ session' = last'.out.value
             \/ /\ ChainState = "SessionEstablished"
                /\ ChainState' = "AvsAuthenticated"
                /\ Called("sport_login") /\ ~Failed(last'.out)
                /\ avs' = last'.out.value
             \/ /\ ChainState = "AvsAuthenticated"
                /\ ChainState' = "StreamResolved"
                /\ Called("hls_url") /\ ~Failed(last'.out)
                /\ stream' = last'.resp.resultObj.src
             \/ /\ ChainState' = "Unauthenticated"
                /\ pc = "stopped" /\ pc' = "start"
        /\ \A op \in {"login", "sport_login", "hls_url"} :
             Called(op) /\ Failed(last'.out) => ChainState' = ChainState
        /\ Called("login") => nreq' = nreq + 1
        /\ Called("sport_login") => nreq' \in {nreq + 1, nreq + 2}
        /\ Called("hls_url") => nreq' \in {nreq, nreq + 1}
      ]_vars

\* C1 witness: a whole chain has run and the stream URL is resolved
C1_Witness ==
    /\ ChainState = "StreamResolved"
    /\ last.op = "hls_url"
    /\ nreq >= 4

\* C2: hls_url called with a null avs_cookie returns None for every
\* channel_id and leaves the number of requests sent unchanged.
C2_NullCookieNoRequest ==
    [][ (Called("hls_url") /\ last'.args[1] = None) =>
            /\ last'.out.kind = "return"
            /\ last'.out.value = None
            /\ nreq' = nreq
      ]_vars

\* C2 witness: hls_url has been called with a null cookie
C2_Witness ==
    /\ last.op = "hls_url"
    /\ last.args[1] = None
    /\ last.out.kind = "return"

\* the call received a GetCDN response
GotCdnResponse == last.op = "hls_url" /\ last.out.nsent = 1

-----------------------------------------------------------------------------
(* Properties of the catalogue functions *)

\* query_text has run on a page whose properties literal was found
QueryTextParsed == last.op = "query_text" /\ last.page.marker

HasTags(props) == "tags" \in DOMAIN props /\ props["tags"] # << >>

\* C4: query_text returns None exactly when the properties literal has an
\* empty tags value or no tags key; in every other case it returns a text;
\* it never fails because tags is absent.
C4_NullIffTagsEmptyOrAbsent ==
    QueryTextParsed =>
        LET props == last.page.literal
            returnsNone == last.out.kind = "return" /\ last.out.value = PyNone
        IN /\ returnsNone <=> ~HasTags(props)
           /\ "tags" \notin DOMAIN props => last.out.kind # "raise"
           /\ HasTags(props) =>
                 last.out.kind = "return" /\ last.out.value.k = "str"

RECURSIVE QuoteAtCommas(_)
\* the text with "," put in place of every comma
QuoteAtCommas(t) ==
    IF t = << >> THEN << >>
    ELSE (IF Head(t) = "," THEN <<"\"", ",", "\"">> ELSE <<Head(t)>>)
         \o QuoteAtCommas(Tail(t))

TagsClause(tags) == <<"tags:(", "\"">> \o QuoteAtCommas(tags) \o <<"\"", ")">>

\* C5: for non-empty tags query_text returns the tags clause, extended by
\* " OR (ccategory:(..) AND competition:(..))" when both competition and
\* ccategory are there, by " OR ccategory:(..)" when only ccategory is,
\* and by nothing when neither is; it returns a text for every combination,
\* competition without ccategory included.
C5_QueryForEveryCombination ==
    (QueryTextParsed /\ HasTags(last.page.literal)) =>
        LET props == last.page.literal
            comp == "competition" \in DOMAIN props
            ccat == "ccategory" \in DOMAIN props
        IN /\ last.out.kind = "return"
           /\ last.out.value.k = "str"
           /\ (comp /\ ccat) =>
                 last.out.value.s =
                     TagsClause(props["tags"])
                     \o <<" OR (ccategory:(\"">> \o props["ccategory"]
                     \o <<"\") AND competition:(\"">> \o props["competition"]
                     \o <<"\"))">>
           /\ (~comp /\ ccat) =>
                 last.out.value.s =
                     TagsClause(props["tags"])
                     \o <<" OR ccategory:(\"">> \o props["ccategory"] \o <<"\")">>
           /\ (~comp /\ ~ccat) =>
                 last.out.value.s = TagsClause(props["tags"])

\* what categories() is to yield for a pagedetails value
ExpectedCategories(pd) ==
    <<[title |-> None, path |-> pd["defaultpage"]["pageurl"]]>> \o
    [i \in 1..Len(pd["pages"]) |->
        [title |-> pd["pages"][i]["title"], path |-> pd["pages"][i]["pageurl"]]]

\* C6: for a valid literal with n entries in pages the generator yields
\* the default Category (title None) first and then the Category of each
\* entry in source order: what it has yielded is always the start of that
\* list, and when it is exhausted it has yielded all n+1.
C6_DefaultThenPagesInOrder ==
    gen.state \in {"suspended", "done"} =>
        LET want == ExpectedCategories(gen.pagedetails) IN
        /\ Len(yielded) <= Len(want)
        /\ yielded = SubSeq(want, 1, Len(yielded))
        /\ Len(yielded) >= 1
        /\ gen.state = "done" => Len(yielded) = Len(gen.pagedetails["pages"]) + 1

\* C6 witness: a literal with two different entries has been listed in full
C6_Witness ==
    /\ gen.state = "done"
    /\ Len(yielded) = 3
    /\ yielded[2] # yielded[3]

\* C7: when the categories page lacks the marker the generator fails with
\* ParseError, has yielded nothing and has sent one request only.
C7_FailsWithParseError ==
    gen.state = "failed" =>
        /\ gen.exc = "ParseError"
        /\ yielded = << >>
        /\ gen.nsent = 1

\* C7 as amended: when the categories page lacks the marker the generator
\* fails with the AttributeError of the missing match (there is no error
\* type of its own), has yielded nothing and has sent one request only.
C7_FailsWithAttributeError ==
    /\ gen.state = "failed" =>
        /\ gen.exc = "AttributeError"
        /\ yielded = << >>
        /\ gen.nsent = 1
    /\ (last.op = "next" /\ "page" \in DOMAIN last /\ ~last.page.marker) =>
        gen.state = "failed"

\* C7 witness: the first next() has met a page without the marker
C7_Witness ==
    /\ gen.state = "failed"
    /\ last.op = "next"
    /\ ~last.page.marker

-----------------------------------------------------------------------------
(* Properties of the search functions *)

SearchOps == {"video_results", "search_results"}

\* C8: for page_size > 0 and numFound >= 0 the call returns num_pages =
\* ceil(numFound / page_size): the least integer k with k * page_size >=
\* numFound, which is 0 for numFound = 0, the quotient when page_size
\* divides numFound and the rounded-down quotient plus 1 otherwise.
C8_NumPagesIsCeiling ==
    (last.op \in SearchOps /\ last.args.page_size > 0) =>
        LET nf == last.resp.numFound
            ps == last.args.page_size
        IN /\ last.out.kind = "return"
           /\ last.out.num_pages \in 0..nf
           /\ last.out.num_pages * ps >= nf
           /\ \A k \in 0..nf : k * ps >= nf => last.out.num_pages <= k
           /\ nf = 0 => last.out.num_pages = 0
           /\ nf % ps = 0 => last.out.num_pages * ps = nf
           /\ nf % ps # 0 => last.out.num_pages = (nf \div ps) + 1

\* C8 witness: 95 results in pages of 10 have given 10 pages
C8_Witness ==
    /\ last.op \in SearchOps
    /\ last.resp.numFound = 95
    /\ last.args.page_size = 10
    /\ last.out.num_pages = 10

\* the query a call passes on as its filter
QueryOfCall(call) ==
    IF call.op = "search_results"
    THEN <<"text:(\"">> \o call.args.query \o <<"\")">>
    ELSE call.args.query

\* C10: every call of video_results or search_results sends exactly one
\* request, and its parameters come from that call's arguments alone:
\* start = (page-1)*page_size, rows = page_size, and fq holds the fixed
\* publication-list filter and this call's query and nothing of an earlier
\* call.
C10_RequestFromOwnArgumentsOnly ==
    [][ (last'.op \in SearchOps /\ (last' # last \/ nreq' # nreq)) =>
            /\ nreq' = nreq + 1
            /\ lastreq'.sent
            /\ lastreq'.params.start =
                   (last'.args.page - 1) * last'.args.page_size
            /\ lastreq'.params.rows = last'.args.page_size
            /\ lastreq'.params.fq = <<"Publist:btsport", QueryOfCall(last')>>
            /\ lastreq'.params.q = "AssetType:(BTVideo)"
      ]_vars

\* C10 witness: a later call, for page 3 in pages of 10, has asked for
\* start 20 with a filter list of two entries
C10_Witness ==
    /\ nreq >= 2
    /\ last.op = "search_results"
    /\ last.args.page = 3
    /\ last.args.page_size = 10
    /\ lastreq.params.start = 20
    /\ Len(lastreq.params.fq) = 2

\* the document with one optional key taken out or set to a value
SetKey(d, key, o) ==
    [k \in (DOMAIN d \ {key}) \cup (IF o.has THEN {key} ELSE {}) |->
        IF k = key THEN o.v ELSE d[k]]

\* the keys of a document that a field of the Video is made from
Sources(field) ==
    CASE field = "url" -> {"hlsurl", "streamingurl"}
      [] field = "thumbnail" -> {"imageurl", "thumbnailURL"}
      [] field = "date" -> {"publicationdate"}
      [] field = "duration" -> {"duration"}

\* no optional field of the Video v made from d changes when a key that is
\* not one of its sources is taken out of d, put in, or given another value
Independent(d, v) ==
    \A key \in OptionalKeys : \A o \in Optional(KeyValues(key)) :
        LET w == VideoOf(SetKey(d, key, o)) IN
        \A field \in {"url", "thumbnail", "date", "duration"} \ 
                      {f \in {"url", "thumbnail", "date", "duration"} :
                          key \in Sources(f)} :
            w[field] = v[field]

\* first when the key first is there, else second when that key is there,
\* else None
FirstPresent(d, first, second) ==
    IF first \in DOMAIN d THEN d[first]
    ELSE IF second \in DOMAIN d THEN d[second]
    ELSE None

\* as FirstPresent, but an empty value of first counts as not there
FirstNonEmpty(d, first, second) ==
    IF first \in DOMAIN d /\ d[first] # "" THEN d[first]
    ELSE IF second \in DOMAIN d THEN d[second]
    ELSE None

\* the i-th Video yielded and the i-th document of the response
Yielded(i) == [doc |-> vgen.docs[i], video |-> vyielded[i]]

\* C9: the url of every Video is hlsurl when that key is present, else
\* streamingurl when present, else None; its thumbnail is imageurl when
\* present, else thumbnailURL when present, else None; url, thumbnail, date
\* and duration are decided independently of one another; title and
\* description are h1title and teaser.
C9_PresentFieldPreferred ==
    vgen.state # "none" =>
        \A i \in 1..Len(vyielded) :
            /\ Yielded(i).video.url =
                   FirstPresent(Yielded(i).doc, "hlsurl", "streamingurl")
            /\ Yielded(i).video.thumbnail =
                   FirstPresent(Yielded(i).doc, "imageurl", "thumbnailURL")
            /\ Independent(Yielded(i).doc, Yielded(i).video)
            /\ Yielded(i).video.title = Yielded(i).doc["h1title"]
            /\ Yielded(i).video.description = Yielded(i).doc["teaser"]

\* C9 as amended: the url of every Video is hlsurl when that key is present
\* with a non-empty value, else streamingurl when present, else None; its
\* thumbnail is imageurl when present with a non-empty value, else
\* thumbnailURL when present, else None; url, thumbnail, date and duration
\* are decided independently of one another; title and description are
\* h1title and teaser.
C9_NonEmptyFieldPreferred ==
    vgen.state # "none" =>
        /\ Len(vyielded) = vgen.i
        /\ \A i \in 1..Len(vyielded) :
            /\ Yielded(i).video.url =
                   FirstNonEmpty(Yielded(i).doc, "hlsurl", "streamingurl")
            /\ Yielded(i).video.thumbnail =
                   FirstNonEmpty(Yielded(i).doc, "imageurl", "thumbnailURL")
            /\ Independent(Yielded(i).doc, Yielded(i).video)
            /\ Yielded(i).video.title = Yielded(i).doc["h1title"]
            /\ Yielded(i).video.description = Yielded(i).doc["teaser"]

\* C9 witness: a document with an empty hlsurl and a streamingurl, and one
\* with both values, have each been turned into a Video
C9_Witness ==
    /\ vgen.state = "done"
    /\ \E i \in 1..Len(vyielded) :
         /\ "hlsurl" \in DOMAIN vgen.docs[i]
         /\ "streamingurl" \in DOMAIN vgen.docs[i]
         /\ vgen.docs[i]["hlsurl"] = ""
         /\ vyielded[i].url = "S"
         /\ "imageurl" \in DOMAIN vgen.docs[i]
         /\ "thumbnailURL" \in DOMAIN vgen.docs[i]
         /\ vyielded[i].thumbnail = "I"

=============================================================================
